---- MODULE Spec2Model ----
(***************************************************************************)
(* The in-memory read-model projector (src/src/types.ts, class             *)
(* InMemoryReadModelProjector) together with the parts of the event store  *)
(* and of the projection manager it talks to.                              *)
(*                                                                         *)
(* One projector object, named ProjName, is modelled.  run() is an async   *)
(* function: it is cut at the points where it waits for the next event of  *)
(* the merged stream and for the status poll, so that appends and manager  *)
(* commands interleave with it.  The code between two such points is one   *)
(* action.                                                                 *)
(*                                                                         *)
(* The user state is kept symbolically: a state is the base it was built   *)
(* on ("init" = the value of initHandler(), "empty" = the literal {},      *)
(* "undefined") and the sequence of events whose handler results replaced  *)
(* it.  Handlers are uninterpreted, so two states are equal exactly when   *)
(* they are the same fold.                                                 *)
(***************************************************************************)
EXTENDS Integers, Sequences, FiniteSets, TLC

\* ------------------------------------------------------------------ bounds
\* Total number of appends the store accepts (every later append fails).
MaxClock == 2
\* Number of emit() appends that may be in flight at once.
MaxPending == 1

\* ------------------------------------------------------------------ inputs
ProjName == "p"
LinkTarget == "t"
StreamOrder == <<"s", "t", "p">>

\* The events an application appends: name (dispatch key) and one metadata label.
EventKinds ==
  { [name |-> "Inc",   tag |-> "a"],
    [name |-> "Other", tag |-> "b"],
    [name |-> "Emit",  tag |-> "a"],
    [name |-> "Link",  tag |-> "a"],
    [name |-> "Boom",  tag |-> "a"] }

\* The event a handler emits or links.
OutKind == [name |-> "Out", tag |-> "a"]

\* The keys of the handler map given to when().
HandlerNames == {"Inc", "Emit", "Link", "Boom"}

\* Matchers: "any" is {data: []}, "a" is the single clause tag = "a".
Matchers == {"any", "a"}

\* The arguments tried for fromStreams(...).
StreamLists == { <<>>, <<"s", "t">> }

NoRecord == [absent |-> TRUE]
EmptyMap == [x \in {} |-> 0]

Undefined == [base |-> "undefined", applied |-> <<>>]
InitState == [base |-> "init", applied |-> <<>>]
EmptyObj == [base |-> "empty", applied |-> <<>>]

Range(seq) == { seq[i] : i \in 1..Len(seq) }

\* {...a, ...b}
Spread(a, b) ==
  [k \in (DOMAIN a) \cup (DOMAIN b) |-> IF k \in DOMAIN b THEN b[k] ELSE a[k]]

VARIABLES
  eventStreams,     \* InMemoryEventStore.eventStreams: stream name -> events
  clock,            \* number of appends so far; the createdAt of the next event
  pending,          \* appendTo calls started by emit() and not yet finished
  projections,      \* the projection record of ProjName, or NoRecord
  readModelInit,    \* readModel.isInitialized()
  readModelAt,      \* the cursors at the last readModel.persist() that succeeded
  state,
  initHandler,      \* whether init() was called
  fromDone,         \* history: fromAll, fromStream or fromStreams has returned
  handlerKind,      \* "none", "when" (handlers set), "any" (handler set)
  metadataMatchers,
  streamPositions,
  streamCreated,
  isStopped,
  status,
  query,
  pc,               \* "idle", "fold" (inside for-await), "poll" (before the status poll)
  keepRunning,
  evenStream,       \* the events of the current mergeAndLoad not yet pulled
  runResult,        \* outcome of the last run(): "none", "ok", or the error
  delivered,        \* history: (stream, no) handed to a handler since the last reset/delete
  sawDelete,        \* history: the delete command the current run reacted to, or "none"
  fresh             \* history: the run started with no record and nothing interfered

\* The EventStore facade (src/src/event-store.ts) over a persistence strategy.
VARIABLES
  options,          \* options.middleware: the registrations, in order
  middleware,       \* EventStore.middleware: the handlers of each action
  streamsTable,     \* persistence strategy: the registered stream names
  storage,          \* persistence strategy: schema name -> stored events
  call,             \* the appendTo call in progress and its per-event chains
  appendResult,     \* outcome of the last appendTo: "none", "pending", "ok", or the error
  handed,           \* history: the batch given to PersistenceStrategy.appendTo by this call
  invoked,          \* history: (action, handler index, event index) of the observer calls
  strategyCalls,    \* history: the strategy operations of the last createStream
  createResult      \* outcome of the last createStream: "none", "ok", or the error

projectorVars ==
  << eventStreams, clock, pending, projections, readModelInit, readModelAt, state,
     initHandler, fromDone, handlerKind, metadataMatchers, streamPositions,
     streamCreated, isStopped, status, query, pc, keepRunning, evenStream, runResult,
     delivered, sawDelete, fresh >>

facadeVars ==
  << options, middleware, streamsTable, storage, call, appendResult, handed, invoked,
     strategyCalls, createResult >>

vars == << projectorVars, facadeVars >>

buildVars == << initHandler, fromDone, handlerKind, metadataMatchers, query >>
histVars == << delivered, sawDelete, fresh >>

\* ------------------------------------------------------- sequential code
\* A method body is a function from machine records to machine records; the
\* record holds every field a method can change, and `failed` the error thrown.
Cur ==
  [ state |-> state, streamPositions |-> streamPositions,
    streamCreated |-> streamCreated, isStopped |-> isStopped, status |-> status,
    projections |-> projections, eventStreams |-> eventStreams, clock |-> clock,
    pending |-> pending, readModelInit |-> readModelInit, readModelAt |-> readModelAt,
    persistFails |-> FALSE, failed |-> "none" ]

\* `await first; await second`: an error ends the sequence.
Then(m, F(_)) == IF m.failed # "none" THEN m ELSE F(m)

\* ------------------------------------------------------- the event store
hasStream(m, name) == name \in DOMAIN m.eventStreams

\* createStream: a name that is registered already is logged and swallowed.
createStream(m, name) ==
  IF hasStream(m, name) THEN m
  ELSE [m EXCEPT !.eventStreams = Spread(@, [k \in {name} |-> <<>>])]

\* deleteStream drops the stream with its events.
deleteStream(m, name) ==
  [m EXCEPT !.eventStreams = [k \in (DOMAIN @) \ {name} |-> @[k]]]

\* Whether the persistence strategy accepts an append to `name`.
canAppend(m, name) == hasStream(m, name) /\ m.clock < MaxClock

\* PersistenceStrategy.appendTo of one event: `no` is the next number of the
\* stream, createdAt the store's clock.
appendTo(m, name, kind) ==
  IF canAppend(m, name)
  THEN [m EXCEPT
          !.eventStreams[name] =
             Append(@, [no |-> Len(@) + 1, name |-> kind.name, tag |-> kind.tag,
                        createdAt |-> m.clock]),
          !.clock = @ + 1]
  ELSE [m EXCEPT !.failed = "AppendFailed"]

Matches(matcher, e) == matcher = "any" \/ e.tag = matcher

StreamIdx(name) == CHOOSE i \in 1..Len(StreamOrder) : StreamOrder[i] = name

Before(x, y) ==
  \/ x.createdAt < y.createdAt
  \/ x.createdAt = y.createdAt /\ x.no < y.no
  \/ x.createdAt = y.createdAt /\ x.no = y.no /\ StreamIdx(x.stream) < StreamIdx(y.stream)

RECURSIVE SortMerged(_)
SortMerged(C) ==
  IF C = {} THEN <<>>
  ELSE LET first == CHOOSE x \in C : \A y \in C \ {x} : Before(x, y)
       IN <<first>> \o SortMerged(C \ {first})

\* mergeAndLoad(params): params is a set of [streamName, fromNumber, matcher].
\* Every yielded event carries metadata.stream; a stream that does not exist
\* yields nothing.
mergeAndLoad(es, params) ==
  SortMerged(UNION {
    IF p.streamName \in DOMAIN es
    THEN { [stream |-> p.streamName, no |-> e.no, name |-> e.name, tag |-> e.tag,
            createdAt |-> e.createdAt] :
           e \in { x \in Range(es[p.streamName]) :
                     x.no >= p.fromNumber /\ Matches(p.matcher, x) } }
    ELSE {} : p \in params })

\* --------------------------------------------------- the projection manager
\* fetchProjectionStatus fails when there is no record.
fetchProjectionStatus(m) ==
  IF m.projections = NoRecord THEN "error" ELSE m.projections.status

idleProjection(m) ==
  IF m.projections = NoRecord THEN [m EXCEPT !.failed = "ProjectionNotFound"]
  ELSE [m EXCEPT !.projections.status = "IDLE"]

\* ------------------------------------------------------- the read model
\* persist() makes the stacked operations durable, or fails; delete() and
\* reset() drop what was made durable.
readModelInitIfNeeded(m) == [m EXCEPT !.readModelInit = TRUE]
readModelDelete(m) == [m EXCEPT !.readModelInit = FALSE, !.readModelAt = EmptyMap]
readModelReset(m) == [m EXCEPT !.readModelAt = EmptyMap]
readModelPersist(m) ==
  IF m.persistFails THEN [m EXCEPT !.failed = "ReadModelError"]
  ELSE [m EXCEPT !.readModelAt = m.streamPositions]

\* ----------------------------------------------------------- the projector
\* initHandler(), or undefined when init() was never called.
initialState == IF initHandler THEN InitState ELSE Undefined

\* delete(deleteProjection = true): the parameter only decides whether the
\* read model is deleted.
delete(m, deleteProjection) ==
  LET m1 == [m EXCEPT !.projections = NoRecord, !.isStopped = TRUE,
                      !.state = initialState]
      m2 == IF deleteProjection THEN readModelDelete(m1) ELSE m1
  IN [m2 EXCEPT !.streamPositions = EmptyMap]

reset(m) ==
  LET m1 == [readModelReset([m EXCEPT !.streamPositions = EmptyMap])
               EXCEPT !.state = initialState]
      m2 == [m1 EXCEPT !.projections =
                [state |-> EmptyObj, positions |-> m1.streamPositions, status |-> "IDLE"]]
  IN deleteStream(m2, ProjName)

\* persist: the record keeps its other fields (its status).
writeRecord(m) ==
  LET st == IF m.state = Undefined THEN EmptyObj ELSE m.state
  IN [m EXCEPT !.projections =
        IF @ = NoRecord
        THEN [state |-> st, positions |-> m.streamPositions, status |-> "undefined"]
        ELSE [@ EXCEPT !.state = st, !.positions = m.streamPositions]]

\* persist() that writes the record before it asks the read model.
persistRecordFirst(m) == Then(writeRecord(m), readModelPersist)

persist(m) == Then(readModelPersist(m), writeRecord)

stopSetFlag(m) == [m EXCEPT !.isStopped = TRUE]
stopSetStatus(m) == [m EXCEPT !.status = "IDLE"]

\* stop() that forgets manager.idleProjection.
stopWithoutIdle(m) == Then(Then(persist(m), stopSetFlag), stopSetStatus)

stop(m) == Then(Then(Then(persist(m), stopSetFlag), idleProjection), stopSetStatus)

load(m) ==
  IF m.projections = NoRecord THEN [m EXCEPT !.failed = "ProjectionNotFound"]
  ELSE [m EXCEPT !.streamPositions = Spread(@, m.projections.positions),
                 !.state = m.projections.state]

\* prepareStreamPosition whose last line spreads the zeros over the cursors.
prepareStreamPositionZeros(m) ==
  LET all == IF query.all THEN [k \in DOMAIN m.eventStreams |-> 0] ELSE EmptyMap
      decl == IF Len(query.streams) > 0 THEN [k \in Range(query.streams) |-> 0] ELSE all
  IN [m EXCEPT !.streamPositions = Spread(@, decl)]

prepareStreamPosition(m) ==
  LET all == IF query.all THEN [k \in DOMAIN m.eventStreams |-> 0] ELSE EmptyMap
      decl == IF Len(query.streams) > 0 THEN [k \in Range(query.streams) |-> 0] ELSE all
  IN [m EXCEPT !.streamPositions = Spread(decl, @)]

fetchRemoteStatus(m) ==
  LET s == fetchProjectionStatus(m) IN IF s = "error" THEN "RUNNING" ELSE s

startAgain(m) ==
  LET m1 == [m EXCEPT !.isStopped = FALSE]
  IN IF m1.projections = NoRecord THEN [m1 EXCEPT !.failed = "ProjectionNotFound"]
     ELSE [m1 EXCEPT !.projections.status = "RUNNING", !.status = "RUNNING"]

projectionExists(m) == m.projections # NoRecord

createProjection(m) ==
  [m EXCEPT !.projections =
     [state |-> EmptyObj, positions |-> EmptyMap, status |-> "IDLE"]]

\* The two switch statements of run(): `initial` is the one before the loop,
\* whose STOPPING case loads first.
react(m, polled, keep, initial) ==
  CASE polled = "STOPPING" -> IF initial THEN Then(load(m), stop) ELSE stop(m)
    [] polled = "DELETING" -> delete(m, TRUE)
    [] polled = "DELETING_INCL_EMITTED_EVENTS" -> delete(m, TRUE)
    [] polled = "RESETTING" -> IF keep THEN Then(reset(m), startAgain) ELSE reset(m)
    [] OTHER -> m

ensureProjection(m) == IF projectionExists(m) THEN m ELSE createProjection(m)

clearStopped(m) == [m EXCEPT !.isStopped = FALSE]

\* run() from the status poll to `this.isStopped = false`.
runSetup(m, keep) ==
  Then(Then(Then(Then(Then(react(m, fetchRemoteStatus(m), keep, TRUE),
       ensureProjection), readModelInitIfNeeded), prepareStreamPosition), load),
       clearStopped)

\* The argument list of mergeAndLoad built from the cursors.
loadParams(m) ==
  { [streamName |-> sn, fromNumber |-> m.streamPositions[sn] + 1,
     matcher |-> IF sn \in DOMAIN metadataMatchers THEN metadataMatchers[sn] ELSE "any"] :
    sn \in DOMAIN m.streamPositions }

nextEvents(m) == mergeAndLoad(m.eventStreams, loadParams(m))

\* The end of one loop iteration: the poll, its reaction, prepareStreamPosition.
pollStep(m, keep) ==
  Then(react(m, fetchRemoteStatus(m), keep, FALSE), prepareStreamPosition)

\* emit(event): the stream is created on the first call; appendTo is called
\* and its promise is not awaited, so the append is left in flight.
emit(m) ==
  LET m1 == IF m.streamCreated = FALSE /\ ~hasStream(m, ProjName)
            THEN [createStream(m, ProjName) EXCEPT !.streamCreated = TRUE]
            ELSE m
  IN [m1 EXCEPT !.pending = @ + 1]

\* linkTo(streamName, event): the append is awaited.
linkTo(m, streamName) ==
  LET m1 == IF ~hasStream(m, streamName) THEN createStream(m, streamName) ELSE m
  IN appendTo(m1, streamName, OutKind)

\* The user's handlers.  The handler of "Emit" awaits emit(), the one of
\* "Link" awaits linkTo(), the one of "Boom" throws; every handler that
\* returns, returns a new state.
userHandler(m, e) ==
  LET returned(x) == [x EXCEPT !.state.applied = Append(@, <<e.stream, e.no>>)]
  IN CASE e.name = "Boom" -> [m EXCEPT !.failed = "HandlerError"]
       [] e.name = "Emit" -> Then(emit(m), returned)
       [] e.name = "Link" -> Then(linkTo(m, LinkTarget), returned)
       [] OTHER -> returned(m)

\* Whether the fold calls a handler for the event: always under whenAny(),
\* by name under when().
invokesHandler(e) == handlerKind = "any" \/ e.name \in HandlerNames

advancePosition(m, e) == [m EXCEPT !.streamPositions[e.stream] = @ + 1]

\* One pass of the for-await body of handleStreamWithSingleHandler /
\* handleStreamWithHandlers.
handleEvent(m, e) ==
  LET m1 == advancePosition(m, e)
  IN IF invokesHandler(e) THEN userHandler(m1, e) ELSE m1

Commit(m) ==
  /\ state' = m.state
  /\ streamPositions' = m.streamPositions
  /\ streamCreated' = m.streamCreated
  /\ isStopped' = m.isStopped
  /\ status' = m.status
  /\ projections' = m.projections
  /\ eventStreams' = m.eventStreams
  /\ clock' = m.clock
  /\ pending' = m.pending
  /\ readModelInit' = m.readModelInit
  /\ readModelAt' = m.readModelAt

machineVars ==
  << state, streamPositions, streamCreated, isStopped, status, projections,
     eventStreams, clock, pending, readModelInit, readModelAt >>

\* ------------------------------------------------- the EventStore facade
\* Bounds of the facade's inputs: registrations in options.middleware, events
\* in one batch, events the strategy stores in all.
MaxMiddleware == 2
MaxBatch == 2
MaxStored == 2

FacadeStream == "s"
EventActions == {"PRE_APPEND", "APPENDED", "APPEND_ERRORED"}

\* The callbacks an application registers.  h1 returns the event with its
\* name added to the event's trail; rejectB throws for an event named "b" and
\* does the same as h1 for the others.
Callbacks == {"h1", "rejectB"}
Registrations == [action : EventActions, handler : Callbacks]
MiddlewareLists == UNION { [1..k -> Registrations] : k \in 0..MaxMiddleware }

EventNames == {"a", "b"}
Batches ==
  UNION { { [i \in 1..k |-> [id |-> i, name |-> f[i], trail |-> <<>>]] :
            f \in [1..k -> EventNames] } : k \in 0..MaxBatch }

Rejects(h, e) == h = "rejectB" /\ e.name = "b"
Returned(h, e) == [e EXCEPT !.trail = Append(@, h)]

\* The constructor's reduce over options.middleware: carry[action].push(handler).
RECURSIVE reduceMiddleware(_, _)
reduceMiddleware(carry, opts) ==
  IF opts = <<>> THEN carry
  ELSE reduceMiddleware(
         [carry EXCEPT ![Head(opts).action] = Append(@, Head(opts).handler)],
         Tail(opts))

NoCall ==
  [phase |-> "idle", action |-> "none", streamName |-> FacadeStream,
   chains |-> <<>>, finished |-> <<>>]

EventStoreConstructor(opts) ==
  /\ options = opts
  /\ middleware = reduceMiddleware([a \in EventActions |-> <<>>], opts)
  /\ streamsTable = {}
  /\ storage = EmptyMap
  /\ call = NoCall
  /\ appendResult = "none"
  /\ handed = <<>>
  /\ invoked = {}
  /\ strategyCalls = <<>>
  /\ createResult = "none"

\* handlers.reduce(async (event, handler) => handler(await event, ...),
\* Promise.resolve(event)): the chain of one event.  `next` is the handler
\* the chain calls next, `value` what the last one returned.
startChain(e, handlers) ==
  [input |-> e, value |-> e, next |-> 1,
   status |-> IF handlers = <<>> THEN "done" ELSE "running"]

\* A chain whose handlers are all given the event the chain started with.
stepChainOnInput(c, handlers) ==
  LET h == handlers[c.next]
  IN IF Rejects(h, c.input) THEN [c EXCEPT !.status = "rejected"]
     ELSE [c EXCEPT !.value = Returned(h, c.input), !.next = @ + 1,
                    !.status = IF c.next = Len(handlers) THEN "done" ELSE "running"]

\* One link: the handler is called with the previous result; when it throws,
\* the chain is rejected and calls no further handler.
stepChain(c, handlers) ==
  LET h == handlers[c.next]
  IN IF Rejects(h, c.value) THEN [c EXCEPT !.status = "rejected"]
     ELSE [c EXCEPT !.value = Returned(h, c.value), !.next = @ + 1,
                    !.status = IF c.next = Len(handlers) THEN "done" ELSE "running"]

\* A Promise.all that waits for every chain and ignores rejections.
promiseAllSettled(chains) ==
  IF \A i \in DOMAIN chains : chains[i].status # "running" THEN "resolved"
  ELSE "pending"

\* Promise.all over the chains.
promiseAll(chains) ==
  IF \E i \in DOMAIN chains : chains[i].status = "rejected" THEN "rejected"
  ELSE IF \A i \in DOMAIN chains : chains[i].status = "done" THEN "resolved"
  ELSE "pending"

\* An array filled in the order the chains completed in.
gatherByCompletion(c) == [k \in DOMAIN c.chains |-> c.chains[c.finished[k]].value]

\* The array Promise.all resolves to: the result of chain i at index i.
gather(c) == [i \in DOMAIN c.chains |-> c.chains[i].value]

\* An observer chain whose rejection is awaited inside the try block.
observerRejectedAwaited(result) == "HandlerError"

\* The promise of an observer chain is dropped by forEach: its rejection
\* reaches nobody.
observerRejected(result) == result

quiescent(c) == \A i \in DOMAIN c.chains : c.chains[i].status # "running"

StoredCount ==
  IF FacadeStream \in DOMAIN storage THEN Len(storage[FacadeStream]) ELSE 0

\* appendTo(streamName, events) up to the start of the PRE_APPEND chains.
EventStoreAppendTo(streamName, events) ==
  /\ call.phase # "pre" /\ quiescent(call)
  /\ StoredCount + Len(events) <= MaxStored
  /\ handed' = <<>>
  /\ invoked' = {}
  /\ IF events = <<>>
     THEN /\ call' = NoCall
          /\ appendResult' = "ok"
     ELSE /\ call' =
               [phase |-> "pre", action |-> "PRE_APPEND", streamName |-> streamName,
                chains |-> [i \in DOMAIN events |->
                              startChain(events[i], middleware["PRE_APPEND"])],
                finished |-> IF middleware["PRE_APPEND"] = <<>>
                             THEN [i \in DOMAIN events |-> i] ELSE <<>>]
          /\ appendResult' = "pending"
  /\ UNCHANGED << options, middleware, streamsTable, storage, strategyCalls,
                  createResult, projectorVars >>

\* The PRE_APPEND chain of event i calls its next handler.  The first
\* rejection rejects Promise.all and appendTo throws; the other chains go on.
preAppend(i) ==
  /\ call.action = "PRE_APPEND"
  /\ i \in DOMAIN call.chains
  /\ call.chains[i].status = "running"
  /\ LET c == stepChain(call.chains[i], middleware["PRE_APPEND"])
         chains == [call.chains EXCEPT ![i] = c]
         thrown == call.phase = "pre" /\ promiseAll(chains) = "rejected"
     IN /\ call' = [call EXCEPT
                      !.chains = chains,
                      !.finished = IF c.status = "done" THEN Append(@, i) ELSE @,
                      !.phase = IF thrown THEN "rejected" ELSE @]
        /\ appendResult' = IF thrown THEN "PreAppendError" ELSE appendResult
  /\ UNCHANGED << options, middleware, streamsTable, storage, handed, invoked,
                  strategyCalls, createResult, projectorVars >>

\* PersistenceStrategy.appendTo(streamName, events): it numbers the events
\* after the ones it holds, or fails (the stream is unknown, or a
\* ConcurrencyError).  Then the observer chains are started and appendTo
\* returns, or throws the strategy's error.
persistBatch(ok) ==
  /\ call.phase = "pre"
  /\ promiseAll(call.chains) = "resolved"
  /\ ok => call.streamName \in streamsTable \cap DOMAIN storage
  /\ LET batch == gather(call)
         observers == IF ok THEN "APPENDED" ELSE "APPEND_ERRORED"
         old == IF ok THEN storage[call.streamName] ELSE <<>>
     IN /\ handed' = batch
        /\ storage' =
             IF ok
             THEN [storage EXCEPT ![call.streamName] =
                     old \o [i \in DOMAIN batch |->
                               [no |-> Len(old) + i, id |-> batch[i].id,
                                name |-> batch[i].name, trail |-> batch[i].trail]]]
             ELSE storage
        /\ call' = [call EXCEPT
                      !.phase = "observing",
                      !.action = observers,
                      !.chains = [i \in DOMAIN batch |->
                                    startChain(batch[i], middleware[observers])]]
        /\ appendResult' = IF ok THEN "ok" ELSE "PersistenceError"
  /\ UNCHANGED << options, middleware, streamsTable, invoked, strategyCalls,
                  createResult, projectorVars >>

\* The APPENDED or APPEND_ERRORED chain of event i calls its next handler.
observe(i) ==
  /\ call.phase = "observing"
  /\ i \in DOMAIN call.chains
  /\ call.chains[i].status = "running"
  /\ LET c == stepChain(call.chains[i], middleware[call.action])
     IN /\ invoked' = invoked \cup {<<call.action, call.chains[i].next, i>>}
        /\ call' = [call EXCEPT !.chains[i] = c]
        /\ appendResult' = IF c.status = "rejected" THEN observerRejected(appendResult)
                           ELSE appendResult
  /\ UNCHANGED << options, middleware, streamsTable, storage, handed, strategyCalls,
                  createResult, projectorVars >>

\* The strategy's table and schema operations on a record of its two tables;
\* `log` lists the operations called, `failed` is the error thrown.
strategyOp(f, op, error) ==
  [f EXCEPT !.log = Append(@, [op |-> op, ok |-> error = "none"]), !.failed = error]

addStreamToStreamsTable(f, name) ==
  IF name \in f.streamsTable
  THEN strategyOp(f, "addStreamToStreamsTable", "StreamAlreadyExists")
  ELSE [strategyOp(f, "addStreamToStreamsTable", "none")
          EXCEPT !.streamsTable = @ \cup {name}]

createSchema(f, name, fault) ==
  IF fault \/ name \in DOMAIN f.storage
  THEN strategyOp(f, "createSchema", "SchemaError")
  ELSE [strategyOp(f, "createSchema", "none")
          EXCEPT !.storage = Spread(@, [k \in {name} |-> <<>>])]

removeStreamFromStreamsTable(f, name, fault) ==
  IF fault THEN strategyOp(f, "removeStreamFromStreamsTable", "RemoveError")
  ELSE [strategyOp(f, "removeStreamFromStreamsTable", "none")
          EXCEPT !.streamsTable = @ \ {name}]

dropSchema(f, name, fault) ==
  IF fault THEN strategyOp(f, "dropSchema", "DropError")
  ELSE [strategyOp(f, "dropSchema", "none")
          EXCEPT !.storage = [k \in (DOMAIN @) \ {name} |-> @[k]]]

\* The catch block of createStream: the two rollback calls, then `throw error`.
rollback(f, name, faults, error) ==
  LET r == removeStreamFromStreamsTable(f, name, "remove" \in faults)
      d == IF r.failed = "none" THEN dropSchema(r, name, "drop" \in faults) ELSE r
  IN IF d.failed = "none" THEN [d EXCEPT !.failed = error] ELSE d

\* createStream that goes on to createSchema when the registration failed.
createStreamNoReturn(f, name, faults) ==
  LET a == addStreamToStreamsTable(f, name)
      b == createSchema(a, name, "schema" \in faults)
  IN IF b.failed = "none" THEN b ELSE rollback(b, name, faults, b.failed)

\* createStream(streamName); `faults` are the strategy operations that fail
\* in this call for a reason of their own.
facadeCreateStream(f, name, faults) ==
  LET a == addStreamToStreamsTable(f, name)
      b == createSchema(a, name, "schema" \in faults)
  IN IF a.failed # "none" THEN [a EXCEPT !.failed = "none"]
     ELSE IF b.failed = "none" THEN b
     ELSE rollback(b, name, faults, b.failed)

\* The rollback calls are made only after createSchema failed, and dropSchema
\* only after removeStreamFromStreamsTable returned.
Faults == { {}, {"schema"}, {"schema", "remove"}, {"schema", "drop"} }

\* The application calls createStream between two appendTo steps that wait
\* for no chain: createStream and a chain step touch different fields, so a
\* call made while a chain runs ends in a state this one reaches as well.
EventStoreCreateStream(name, faults) ==
  /\ quiescent(call)
  /\ LET f == facadeCreateStream(
               [streamsTable |-> streamsTable, storage |-> storage, log |-> <<>>,
                failed |-> "none"], name, faults)
     IN /\ streamsTable' = f.streamsTable
        /\ storage' = f.storage
        /\ strategyCalls' = f.log
        /\ createResult' = IF f.failed = "none" THEN "ok" ELSE f.failed
  /\ UNCHANGED << options, middleware, call, appendResult, handed, invoked,
                  projectorVars >>

\* ------------------------------------------------------------------ Init
ProjectorInit ==
  /\ eventStreams = [k \in {"s", LinkTarget} |-> <<>>]
  /\ clock = 0
  /\ pending = 0
  /\ projections = NoRecord
  /\ readModelInit = FALSE
  /\ readModelAt = EmptyMap
  /\ state = Undefined
  /\ initHandler = FALSE
  /\ fromDone = FALSE
  /\ handlerKind = "none"
  /\ metadataMatchers = EmptyMap
  /\ streamPositions = EmptyMap
  /\ streamCreated = FALSE
  /\ isStopped = FALSE
  /\ status = "IDLE"
  /\ query = [all |-> FALSE, streams |-> <<>>]
  /\ pc = "idle"
  /\ keepRunning = FALSE
  /\ evenStream = <<>>
  /\ runResult = "none"
  /\ delivered = {}
  /\ sawDelete = "none"
  /\ fresh = FALSE

\* The projector's store is built without middleware.
Init == ProjectorInit /\ EventStoreConstructor(<<>>)

\* ------------------------------------------------------------ build phase
fromCalled == query.all \/ Len(query.streams) > 0
whenCalled == handlerKind # "none"

init ==
  /\ pc = "idle" /\ ~initHandler
  /\ initHandler' = TRUE
  /\ state' = InitState
  /\ UNCHANGED << eventStreams, clock, pending, projections, readModelInit,
                  readModelAt, fromDone, handlerKind, metadataMatchers,
                  streamPositions, streamCreated, isStopped, status, query, pc,
                  keepRunning, evenStream, runResult, histVars >>
  /\ UNCHANGED facadeVars

fromAll ==
  /\ pc = "idle" /\ ~fromCalled
  /\ query' = [query EXCEPT !.all = TRUE]
  /\ fromDone' = TRUE
  /\ UNCHANGED << machineVars, initHandler, handlerKind, metadataMatchers, pc,
                  keepRunning, evenStream, runResult, histVars >>
  /\ UNCHANGED facadeVars

fromStream(streamName, matcher) ==
  /\ pc = "idle" /\ ~fromCalled
  /\ query' = [query EXCEPT !.streams = Append(@, streamName)]
  /\ metadataMatchers' = Spread(metadataMatchers, [k \in {streamName} |-> matcher])
  /\ fromDone' = TRUE
  /\ UNCHANGED << machineVars, initHandler, handlerKind, pc, keepRunning, evenStream,
                  runResult, histVars >>
  /\ UNCHANGED facadeVars

fromStreams(names) ==
  /\ pc = "idle" /\ ~fromCalled
  /\ query' = [query EXCEPT !.streams = names]
  /\ metadataMatchers' = [k \in Range(names) |-> "any"]
  /\ fromDone' = TRUE
  /\ UNCHANGED << machineVars, initHandler, handlerKind, pc, keepRunning, evenStream,
                  runResult, histVars >>
  /\ UNCHANGED facadeVars

when ==
  /\ pc = "idle" /\ ~whenCalled
  /\ handlerKind' = "when"
  /\ UNCHANGED << machineVars, initHandler, fromDone, metadataMatchers, query, pc,
                  keepRunning, evenStream, runResult, histVars >>
  /\ UNCHANGED facadeVars

whenAny ==
  /\ pc = "idle" /\ ~whenCalled
  /\ handlerKind' = "any"
  /\ UNCHANGED << machineVars, initHandler, fromDone, metadataMatchers, query, pc,
                  keepRunning, evenStream, runResult, histVars >>
  /\ UNCHANGED facadeVars

\* -------------------------------------------------------------------- run
Commands == {"STOPPING", "DELETING", "DELETING_INCL_EMITTED_EVENTS", "RESETTING"}
DeleteCommands == {"DELETING", "DELETING_INCL_EMITTED_EVENTS"}

\* History kept at a poll point that polled `polled`.
Observe(polled, start) ==
  /\ delivered' = IF polled \in Commands \ {"STOPPING"} THEN {} ELSE delivered
  /\ sawDelete' = IF polled \in DeleteCommands THEN polled
                  ELSE IF start THEN "none" ELSE sawDelete
  /\ fresh' = IF start THEN projections = NoRecord /\ streamPositions = EmptyMap
              ELSE fresh /\ polled \notin Commands

\* run(keepRunning) up to the first pull of the merged stream, started on
\* the machine m0.
runFrom(m0, keep) ==
  /\ pc = "idle"
  /\ IF handlerKind = "none"
     THEN /\ runResult' = "NoHandler"
          /\ UNCHANGED << machineVars, buildVars, pc, keepRunning, evenStream, histVars >>
     ELSE IF state = Undefined
     THEN /\ runResult' = "StateNotInitialised"
          /\ UNCHANGED << machineVars, buildVars, pc, keepRunning, evenStream, histVars >>
     ELSE LET m == runSetup(m0, keep)
              events == IF m.failed = "none" THEN nextEvents(m) ELSE <<>>
          IN /\ Commit(m)
             /\ keepRunning' = keep
             /\ evenStream' = events
             /\ pc' = IF m.failed # "none" THEN "idle"
                      ELSE IF events = <<>> THEN "poll" ELSE "fold"
             /\ runResult' = IF m.failed # "none" THEN m.failed ELSE "running"
             /\ Observe(fetchRemoteStatus(Cur), TRUE)
             /\ UNCHANGED buildVars
  /\ UNCHANGED facadeVars

run(keep) == runFrom(Cur, keep)

\* run(keepRunning) while readModel.persist() fails: it is called when the
\* first poll finds STOPPING.
runReadModelFails(keep) ==
  /\ handlerKind # "none" /\ state # Undefined
  /\ fetchRemoteStatus(Cur) = "STOPPING"
  /\ runFrom([Cur EXCEPT !.persistFails = TRUE], keep)

\* The fold pulls the next event and handles it.
handle ==
  /\ pc = "fold"
  /\ LET e == Head(evenStream)
         m == handleEvent(Cur, e)
         rest == Tail(evenStream)
     IN /\ (invokesHandler(e) /\ e.name = "Emit") => pending < MaxPending
        /\ Commit(m)
        /\ delivered' = IF invokesHandler(e) THEN delivered \cup {<<e.stream, e.no>>}
                        ELSE delivered
        /\ evenStream' = IF m.failed # "none" THEN <<>> ELSE rest
        /\ pc' = IF m.failed # "none" THEN "idle"
                 ELSE IF m.isStopped \/ rest = <<>> THEN "poll" ELSE "fold"
        /\ runResult' = IF m.failed # "none" THEN m.failed ELSE runResult
  /\ UNCHANGED << buildVars, keepRunning, sawDelete, fresh >>
  /\ UNCHANGED facadeVars

\* The poll after the fold, its reaction, and the loop test.
pollFrom(m0) ==
  /\ pc = "poll"
  /\ LET m == pollStep(m0, keepRunning)
         again == m.failed = "none" /\ keepRunning /\ ~m.isStopped
         events == IF again THEN nextEvents(m) ELSE <<>>
     IN /\ Commit(m)
        /\ evenStream' = events
        /\ pc' = IF ~again THEN "idle" ELSE IF events = <<>> THEN "poll" ELSE "fold"
        /\ runResult' = IF m.failed # "none" THEN m.failed
                        ELSE IF again THEN "running" ELSE "ok"
        /\ Observe(fetchRemoteStatus(Cur), FALSE)
  /\ UNCHANGED << buildVars, keepRunning >>
  /\ UNCHANGED facadeVars

poll == pollFrom(Cur)

\* The poll finds STOPPING while readModel.persist() fails.
pollReadModelFails ==
  /\ fetchRemoteStatus(Cur) = "STOPPING"
  /\ pollFrom([Cur EXCEPT !.persistFails = TRUE])

\* ------------------------------------------------------- the environment
\* An application appends one event to stream "s".
append(kind) ==
  /\ initHandler /\ whenCalled /\ fromCalled
  /\ canAppend(Cur, "s")
  /\ Commit(appendTo(Cur, "s", kind))
  /\ fresh' = (fresh /\ pc = "idle")
  /\ UNCHANGED << buildVars, pc, keepRunning, evenStream, runResult, delivered, sawDelete >>
  /\ UNCHANGED facadeVars

\* An append started by emit() finishes; its error, if any, has no receiver.
completeAppend ==
  /\ pending > 0
  /\ Commit([appendTo([Cur EXCEPT !.pending = @ - 1], ProjName, OutKind)
               EXCEPT !.failed = "none"])
  /\ UNCHANGED << buildVars, pc, keepRunning, evenStream, runResult, histVars >>
  /\ UNCHANGED facadeVars

\* stopProjection, resetProjection, deleteProjection(name, includeEmitted)
\* write the command into the record's status.
managerCommand(cmd) ==
  /\ projections # NoRecord
  /\ projections' = [projections EXCEPT !.status = cmd]
  /\ UNCHANGED << eventStreams, clock, pending, readModelInit, readModelAt, state,
                  streamPositions, streamCreated, isStopped, status, buildVars, pc,
                  keepRunning, evenStream, runResult, histVars >>
  /\ UNCHANGED facadeVars

Next ==
  \/ init
  \/ fromAll
  \/ \E matcher \in Matchers : fromStream("s", matcher)
  \/ \E names \in StreamLists : fromStreams(names)
  \/ when
  \/ whenAny
  \/ \E keep \in BOOLEAN : run(keep)
  \/ handle
  \/ poll
  \/ \E kind \in EventKinds : append(kind)
  \/ completeAppend
  \/ \E cmd \in Commands : managerCommand(cmd)

Spec == Init /\ [][Next]_vars

\* The loop of run(keepRunning = true) on a projector that was built with
\* init(f), fromStream("s", tag = "a") and when() or whenAny(), while the
\* application appends and the manager asks it to stop.  The event loop runs
\* a continuation that is ready (the next pull, the next poll, an append in
\* flight) eventually.
LiveInit ==
  /\ eventStreams = [k \in {"s", LinkTarget} |-> <<>>]
  /\ clock = 0
  /\ pending = 0
  /\ projections = NoRecord
  /\ readModelInit = FALSE
  /\ readModelAt = EmptyMap
  /\ state = InitState
  /\ initHandler = TRUE
  /\ fromDone = TRUE
  /\ handlerKind \in {"when", "any"}
  /\ query = [all |-> FALSE, streams |-> <<"s">>]
  /\ metadataMatchers = [k \in {"s"} |-> "a"]
  /\ streamPositions = EmptyMap
  /\ streamCreated = FALSE
  /\ isStopped = FALSE
  /\ status = "IDLE"
  /\ pc = "idle"
  /\ keepRunning = FALSE
  /\ evenStream = <<>>
  /\ runResult = "none"
  /\ delivered = {}
  /\ sawDelete = "none"
  /\ fresh = FALSE
  /\ EventStoreConstructor(<<>>)

LiveNext ==
  \/ run(TRUE)
  \/ handle
  \/ poll
  \/ \E kind \in EventKinds : append(kind)
  \/ completeAppend
  \/ managerCommand("STOPPING")

LiveSpec ==
  /\ LiveInit
  /\ [][LiveNext]_vars
  /\ WF_vars(handle \/ poll \/ completeAppend)

\* The stop protocol with a read model that can fail: the projector of
\* LiveInit, run with and without keepRunning, while the application appends
\* and the manager asks it to stop.
StopNext ==
  \/ \E keep \in BOOLEAN : run(keep)
  \/ \E keep \in BOOLEAN : runReadModelFails(keep)
  \/ handle
  \/ poll
  \/ pollReadModelFails
  \/ \E kind \in EventKinds : append(kind)
  \/ completeAppend
  \/ managerCommand("STOPPING")

StopSpec == LiveInit /\ [][StopNext]_vars

\* An application creates a stream while run() is looping.
createStreamWhileRunning(name) ==
  /\ pc # "idle"
  /\ ~hasStream(Cur, name)
  /\ Commit(createStream(Cur, name))
  /\ UNCHANGED << buildVars, pc, keepRunning, evenStream, runResult, histVars >>
  /\ UNCHANGED facadeVars

\* A projector built with init(f), fromAll() and when() or whenAny() over a
\* store that holds the stream "s" only.  While run(keepRunning = true) is
\* looping, the stream LinkTarget is created by the application or by the
\* first linkTo(), and the projection's own stream by the first emit(); the
\* manager asks the projection to stop or to reset.
FromAllInit ==
  /\ eventStreams = [k \in {"s"} |-> <<>>]
  /\ clock = 0
  /\ pending = 0
  /\ projections = NoRecord
  /\ readModelInit = FALSE
  /\ readModelAt = EmptyMap
  /\ state = InitState
  /\ initHandler = TRUE
  /\ fromDone = TRUE
  /\ handlerKind \in {"when", "any"}
  /\ query = [all |-> TRUE, streams |-> <<>>]
  /\ metadataMatchers = EmptyMap
  /\ streamPositions = EmptyMap
  /\ streamCreated = FALSE
  /\ isStopped = FALSE
  /\ status = "IDLE"
  /\ pc = "idle"
  /\ keepRunning = FALSE
  /\ evenStream = <<>>
  /\ runResult = "none"
  /\ delivered = {}
  /\ sawDelete = "none"
  /\ fresh = FALSE
  /\ EventStoreConstructor(<<>>)

FromAllNext ==
  \/ run(TRUE)
  \/ handle
  \/ poll
  \/ \E kind \in EventKinds : append(kind)
  \/ completeAppend
  \/ createStreamWhileRunning(LinkTarget)
  \/ \E cmd \in {"STOPPING", "RESETTING"} : managerCommand(cmd)

FromAllSpec == FromAllInit /\ [][FromAllNext]_vars

\* The facade on its own: an application creates the stream and appends
\* batches, with every list of registrations up to MaxMiddleware.
StoreInit ==
  /\ ProjectorInit
  /\ \E opts \in MiddlewareLists : EventStoreConstructor(opts)

StoreNext ==
  \/ \E events \in Batches : EventStoreAppendTo(FacadeStream, events)
  \/ \E i \in 1..MaxBatch : preAppend(i)
  \/ \E ok \in BOOLEAN : persistBatch(ok)
  \/ \E i \in 1..MaxBatch : observe(i)
  \/ \E faults \in Faults : EventStoreCreateStream(FacadeStream, faults)

StoreSpec == StoreInit /\ [][StoreNext]_vars

\* ------------------------------------------------------------------ claims
PositionAt(positions, sn) == IF sn \in DOMAIN positions THEN positions[sn] ELSE 0

\* Two cursor maps name the same cursors: a stream without an entry has
\* processed nothing, like a stream at 0.
SamePositions(a, b) ==
  \A sn \in (DOMAIN a) \cup (DOMAIN b) : PositionAt(a, sn) = PositionAt(b, sn)

\* The step is a poll point (the poll of run() before the loop, or the poll
\* after a fold) that polled `cmd`.
PollsCommand(cmd) ==
  /\ poll \/ \E keep \in BOOLEAN : run(keep)
  /\ handlerKind # "none" /\ state # Undefined
  /\ fetchRemoteStatus(Cur) = cmd

\* run() returns normally at this step.
Returns == poll /\ pc' = "idle" /\ runResult' = "ok"

\* C1: after the fold handles an event e delivered from stream s,
\* positions[s] equals e.no (for every matcher, for when() and whenAny()).
C1_PositionIsEventNo ==
  [][handle =>
       streamPositions'[Head(evenStream).stream] = Head(evenStream).no]_vars

\* C2: with no reset in between, no (stream, no) is handed to a handler a
\* second time, over all iterations of one run and over successive runs.
C2_AtMostOnce ==
  [][(handle /\ invokesHandler(Head(evenStream))) =>
       <<Head(evenStream).stream, Head(evenStream).no>> \notin delivered]_vars

\* C3: whenever run() returns normally and the projection was not deleted
\* during the run, the record holds the projector's state and positions
\* (stated for the runs whose last poll found no command to react to).
C3_RunPersists ==
  [][(Returns /\ sawDelete' = "none" /\ fetchRemoteStatus(Cur) \notin Commands) =>
       /\ projections' # NoRecord
       /\ projections'.state = state'
       /\ SamePositions(projections'.positions, streamPositions')]_vars

RECURSIVE foldHandlers(_, _, _, _)
foldHandlers(st, sn, events, i) ==
  IF i > Len(events) THEN st
  ELSE foldHandlers(IF events[i].name \in HandlerNames
                    THEN [st EXCEPT !.applied = Append(@, <<sn, events[i].no>>)]
                    ELSE st,
                    sn, events, i + 1)

\* C4: init(f), fromStream(S) without a filter, when(H), no prior record: the
\* state after run() is the left fold of the handlers over the events of S
\* from f(), and positions[S] counts every event, handled or not.
C4_FoldFromInit ==
  [][(/\ Returns /\ fresh' /\ ~keepRunning
      /\ handlerKind = "when" /\ query = [all |-> FALSE, streams |-> <<"s">>]
      /\ metadataMatchers["s"] = "any") =>
       /\ state' = foldHandlers(InitState, "s", eventStreams'["s"], 1)
       /\ streamPositions'["s"] = Len(eventStreams'["s"])]_vars

\* C5: a throwing handler fails run() without writing the record, and the
\* next run() starts every stream at its last persisted position + 1.
C5_CrashResumesFromCheckpoint ==
  [][/\ (handle /\ runResult' = "HandlerError") => projections' = projections
     /\ ((\E keep \in BOOLEAN : run(keep)) /\ runResult = "HandlerError"
           /\ fetchRemoteStatus(Cur) \notin Commands) =>
          \A sn \in DOMAIN streamPositions' :
             streamPositions'[sn] = PositionAt(projections.positions, sn)]_vars

\* C6: polling RESETTING puts every subscribed stream back to 0, makes the
\* state initHandler() and rewrites the record; with keepRunning the record
\* becomes RUNNING and the next fold starts every stream at no = 1, without
\* it the record is IDLE.
C6_ResetRestarts ==
  [][PollsCommand("RESETTING") =>
       /\ \A sn \in DOMAIN streamPositions' : streamPositions'[sn] = 0
       /\ Range(query.streams) \subseteq DOMAIN streamPositions'
       /\ state' = InitState
       /\ projections' # NoRecord
       /\ projections'.state = EmptyObj
       /\ SamePositions(projections'.positions, EmptyMap)
       /\ projections'.status = IF keepRunning' THEN "RUNNING" ELSE "IDLE"
       /\ keepRunning' =>
            evenStream' = mergeAndLoad(eventStreams',
              { [streamName |-> sn, fromNumber |-> 1,
                 matcher |-> IF sn \in DOMAIN metadataMatchers
                             THEN metadataMatchers[sn] ELSE "any"] :
                sn \in DOMAIN streamPositions' })]_vars

\* What the code does for C6 at the poll after a fold: the claim holds there.
ResetInLoopRestarts ==
  [][(poll /\ fetchRemoteStatus(Cur) = "RESETTING") =>
       /\ \A sn \in DOMAIN streamPositions' : streamPositions'[sn] = 0
       /\ state' = InitState
       /\ projections'.status = IF keepRunning THEN "RUNNING" ELSE "IDLE"]_vars

\* C8: when DELETING was observed at a poll point, the record is absent when
\* that run returns and no handler is invoked after the deletion.
C8_DeleteIsFinal ==
  [][/\ (Returns /\ sawDelete' = "DELETING") => projections' = NoRecord
     /\ (handle /\ invokesHandler(Head(evenStream))) => sawDelete # "DELETING"]_vars

\* C9: observing DELETING_INCL_EMITTED_EVENTS deletes the projection's own
\* emitted stream; plain DELETING leaves it.
C9_DeleteDropsEmittedStream ==
  [][/\ PollsCommand("DELETING_INCL_EMITTED_EVENTS") =>
          ProjName \notin DOMAIN eventStreams'
     /\ PollsCommand("DELETING") =>
          (ProjName \in DOMAIN eventStreams => ProjName \in DOMAIN eventStreams')]_vars

StreamLen(es, sn) == IF sn \in DOMAIN es THEN Len(es[sn]) ELSE 0

\* C10: when a handler that awaits emit() or linkTo() has returned and the
\* fold moves on, the event is in its stream, or the append's error failed
\* the handler.
C10_EmitAwaitsAppend ==
  [][(handle /\ invokesHandler(Head(evenStream))) =>
       /\ Head(evenStream).name = "Emit" =>
            \/ StreamLen(eventStreams', ProjName) = StreamLen(eventStreams, ProjName) + 1
            \/ runResult' = "AppendFailed"
       /\ Head(evenStream).name = "Link" =>
            \/ StreamLen(eventStreams', LinkTarget) = StreamLen(eventStreams, LinkTarget) + 1
            \/ runResult' = "AppendFailed"]_vars

\* The poll of a looping run that finds STOPPING ends the run with the record
\* IDLE and holding the projector's state and positions.
StopPollReturns ==
  [][(poll /\ keepRunning /\ fetchRemoteStatus(Cur) = "STOPPING") =>
       /\ pc' = "idle" /\ runResult' = "ok"
       /\ projections' # NoRecord
       /\ projections'.status = "IDLE"
       /\ projections'.state = state'
       /\ SamePositions(projections'.positions, streamPositions')]_vars

StopRequested ==
  /\ pc \in {"fold", "poll"} /\ keepRunning
  /\ projections # NoRecord /\ projections.status = "STOPPING"

\* C7: if the status is STOPPING while run(keepRunning = true) is looping, the
\* run call ends (after the fold in progress), and when it returns from the
\* poll that found STOPPING the record is IDLE and holds the projector's state
\* and positions.
C7_StopReturns == StopPollReturns /\ (StopRequested ~> pc = "idle")

\* A looping run that handled an event has returned on STOPPING.
C7_Witness ==
  /\ pc = "idle" /\ runResult = "ok" /\ keepRunning /\ isStopped
  /\ projections # NoRecord /\ projections.status = "IDLE"
  /\ projections.state.applied # <<>>
  /\ PositionAt(projections.positions, "s") >= 1

\* C11: an emit(event) leaves a stream named like the projection in the store
\* for its append: emit creates the stream whenever it does not exist, also
\* for the first emit after reset() deleted the emitted stream.
C11_EmitCreatesStream ==
  [][(handle /\ invokesHandler(Head(evenStream)) /\ Head(evenStream).name = "Emit") =>
       ProjName \in DOMAIN eventStreams']_vars

\* C18: once fromAll(), fromStream(s) or fromStreams(s...) has been called,
\* with any arguments, no later call of the three succeeds and the stream
\* selection and the matchers stay as they are.
C18_FromOnlyOnce ==
  [][fromDone =>
       /\ ~fromAll
       /\ \A matcher \in Matchers : ~fromStream("s", matcher)
       /\ \A names \in StreamLists \ {<<>>} : ~fromStreams(names)
       /\ UNCHANGED << query, metadataMatchers >>]_vars

\* C19: persist() asks the read model first and writes state and positions to
\* the record after it; when readModel.persist() fails the record is left as
\* it was; the record's positions are never ahead of what the read model has
\* persisted.
C19_ReadModelFirst ==
  /\ [][(pollReadModelFails \/ \E keep \in BOOLEAN : runReadModelFails(keep)) =>
          /\ projections' = projections
          /\ readModelAt' = readModelAt
          /\ runResult' = "ReadModelError"]_vars
  /\ [](projections # NoRecord =>
          \A sn \in DOMAIN projections.positions :
             projections.positions[sn] <= PositionAt(readModelAt, sn))

\* readModel.persist() failed at a stop while the projector was ahead of its
\* record, and an earlier stop had persisted both.
C19_Witness ==
  /\ pc = "idle" /\ runResult = "ReadModelError"
  /\ projections # NoRecord
  /\ PositionAt(projections.positions, "s") >= 1
  /\ PositionAt(readModelAt, "s") = PositionAt(projections.positions, "s")
  /\ PositionAt(streamPositions, "s") > PositionAt(projections.positions, "s")

\* C20: a run() that finds STOPPING at its first poll, before the loop,
\* invokes no handler and advances no position before it returns, with and
\* without keepRunning: it does not go on to pull an event of the merged
\* stream, which advances the event's stream and calls its handler.
C20_InitialStopHonoured ==
  [][((\E keep \in BOOLEAN : run(keep))
      /\ handlerKind # "none" /\ state # Undefined
      /\ fetchRemoteStatus(Cur) = "STOPPING") =>
       pc' # "fold"]_vars

\* The handlers registered for an action, in the order of options.middleware.
Registered(action) ==
  LET Is(r) == r.action = action
      sel == SelectSeq(options, Is)
  IN [k \in DOMAIN sel |-> sel[k].handler]

StoredEvents == IF FacadeStream \in DOMAIN storage THEN storage[FacadeStream] ELSE <<>>

FailedOp(log, op) == \E k \in DOMAIN log : log[k].op = op /\ ~log[k].ok
CalledOp(log, op) == \E k \in DOMAIN log : log[k].op = op

\* C12: appendTo passes each event through the PRE_APPEND handlers in
\* registration order, each given the previous one's result, and the event
\* handed to PersistenceStrategy.appendTo, and so stored and loaded, is that
\* final result and not the original event.
C12_PreAppendChain ==
  /\ [][(\E ok \in BOOLEAN : persistBatch(ok)) =>
          /\ handed' # <<>>
          /\ \A i \in DOMAIN handed' : handed'[i].trail = Registered("PRE_APPEND")]_vars
  /\ [](\A k \in DOMAIN StoredEvents : StoredEvents[k].trail = Registered("PRE_APPEND"))

\* An event is stored that went through two different PRE_APPEND handlers.
C12_Witness ==
  \E k \in DOMAIN StoredEvents :
     /\ Len(StoredEvents[k].trail) = 2
     /\ StoredEvents[k].trail[1] # StoredEvents[k].trail[2]
     /\ Len(options) = 2

\* C13: when a PRE_APPEND handler fails for an event of the batch, appendTo
\* fails, PersistenceStrategy.appendTo is not called and no event of the
\* batch becomes visible.
C13_PreAppendFailureAborts ==
  /\ []((/\ call.action = "PRE_APPEND"
         /\ \E i \in DOMAIN call.chains : call.chains[i].status = "rejected") =>
          appendResult = "PreAppendError" /\ handed = <<>>)
  /\ [][(\E i \in 1..MaxBatch : preAppend(i)) => storage' = storage]_vars

\* The chain of the second event was rejected after the first event's chain
\* was done, on a stream the strategy would have accepted.
C13_Witness ==
  /\ call.action = "PRE_APPEND" /\ Len(call.chains) = 2
  /\ call.chains[1].status = "done" /\ call.chains[2].status = "rejected"
  /\ appendResult = "PreAppendError"
  /\ FacadeStream \in streamsTable \cap DOMAIN storage

\* What the code does for C14: the observers of the right action are started
\* with the right outcome, and no observer of the other action is called.
ObserversRouted ==
  /\ [][/\ persistBatch(TRUE) => appendResult' = "ok" /\ call'.action = "APPENDED"
        /\ persistBatch(FALSE) =>
             appendResult' = "PersistenceError" /\ call'.action = "APPEND_ERRORED"]_vars
  /\ [](\A x \in invoked : call.phase = "observing" /\ x[1] = call.action)

\* C14: when PersistenceStrategy.appendTo fails, the APPEND_ERRORED handlers
\* are invoked for every event of the batch, no APPENDED handler is, and
\* appendTo fails with the persistence error; when it succeeds, the APPENDED
\* handlers are invoked for every event and no APPEND_ERRORED handler is.
C14_ObserversInvoked ==
  /\ ObserversRouted
  /\ []((call.phase = "observing" /\ quiescent(call)) =>
          invoked = { <<call.action, k, i>> :
                      k \in DOMAIN middleware[call.action], i \in DOMAIN call.chains })

\* C15: a failure of an APPENDED or APPEND_ERRORED handler does not change
\* the outcome of appendTo: after a successful persistence call appendTo has
\* succeeded and APPEND_ERRORED is not triggered, after a failed one the
\* caller has the persistence error and not the handler's.
C15_ObserverFailureIgnored ==
  /\ [](call.phase = "observing" =>
          appendResult = IF call.action = "APPENDED" THEN "ok" ELSE "PersistenceError")
  /\ [][(\E i \in 1..MaxBatch : observe(i)) =>
          /\ call'.action = call.action
          /\ appendResult' = appendResult
          /\ storage' = storage]_vars

\* An APPENDED handler has failed after a successful persistence call.
C15_Witness ==
  /\ call.phase = "observing" /\ call.action = "APPENDED"
  /\ \E i \in DOMAIN call.chains : call.chains[i].status = "rejected"
  /\ appendResult = "ok"
  /\ StoredEvents # <<>>

\* C16: when createSchema fails inside createStream(name), the name is not
\* registered when createStream returns, dropSchema(name) was attempted and
\* the caller has the createSchema error, also when a rollback step fails.
C16_CreateStreamRollsBack ==
  [][((\E faults \in Faults : EventStoreCreateStream(FacadeStream, faults))
      /\ FailedOp(strategyCalls', "createSchema")) =>
       /\ FacadeStream \notin streamsTable'
       /\ CalledOp(strategyCalls', "dropSchema")
       /\ createResult' = "SchemaError"]_vars

\* C17: createStream(name) for a registered name returns without an error
\* and changes nothing: createSchema, removeStreamFromStreamsTable and
\* dropSchema are not called and the stream keeps its events.
C17_CreateStreamIdempotent ==
  [][((\E faults \in Faults : EventStoreCreateStream(FacadeStream, faults))
      /\ FacadeStream \in streamsTable) =>
       /\ createResult' = "ok"
       /\ UNCHANGED << streamsTable, storage >>
       /\ strategyCalls' = << [op |-> "addStreamToStreamsTable", ok |-> FALSE] >>]_vars

\* createStream was called for a registered stream that holds events.
C17_Witness ==
  /\ createResult = "ok"
  /\ strategyCalls = << [op |-> "addStreamToStreamsTable", ok |-> FALSE] >>
  /\ FacadeStream \in streamsTable
  /\ StoredEvents # <<>>

\* The streams the query subscribes to, on the machine m.
Subscribed(m) ==
  IF Len(query.streams) > 0 THEN Range(query.streams)
  ELSE IF query.all THEN DOMAIN m.eventStreams ELSE {}

\* `after` keeps every cursor of `before` and has every subscribed stream
\* that had none at 0.
KeepsAndAdds(before, after) ==
  /\ \A k \in DOMAIN before.streamPositions :
       /\ k \in DOMAIN after.streamPositions
       /\ after.streamPositions[k] = before.streamPositions[k]
  /\ \A k \in Subscribed(before) \ DOMAIN before.streamPositions :
       /\ k \in DOMAIN after.streamPositions
       /\ after.streamPositions[k] = 0

\* The machine prepareStreamPosition is called on at the end of an iteration.
AfterReaction == react(Cur, fetchRemoteStatus(Cur), keepRunning, FALSE)

\* The events of stream k in a merged stream, in the order they are pulled.
OfStream(events, k) == SelectSeq(events, LAMBDA e : e.stream = k)

\* C21: prepareStreamPosition never changes the position of a stream that
\* has one and sets every subscribed stream without a position to 0 (on the
\* projector as it is, and where run() calls it after the poll's reaction);
\* under fromAll, an iteration of run(keepRunning = true) that goes on adds
\* every stream it had no cursor for at 0 and then pulls all events of that
\* stream, from no = 1 on, in order; and an event handled on a cursor of 0
\* has no = 1.
C21_NewStreamsFromZero ==
  /\ [](KeepsAndAdds(Cur, prepareStreamPosition(Cur)))
  /\ []((pc = "poll" /\ AfterReaction.failed = "none") =>
          KeepsAndAdds(AfterReaction, prepareStreamPosition(AfterReaction)))
  /\ [][(poll /\ query.all /\ keepRunning /\ pc' # "idle") =>
          \A k \in DOMAIN eventStreams' :
             /\ k \in DOMAIN streamPositions'
             /\ k \notin DOMAIN streamPositions =>
                  /\ streamPositions'[k] = 0
                  /\ Len(OfStream(evenStream', k)) = Len(eventStreams'[k])
                  /\ \A i \in 1..Len(eventStreams'[k]) :
                       OfStream(evenStream', k)[i].no = i]_vars
  /\ [][(handle /\ query.all /\ streamPositions[Head(evenStream).stream] = 0) =>
          Head(evenStream).no = 1]_vars

\* The stream LinkTarget was created while run() was looping, got its cursor
\* from a later iteration, and its first event was handled.
C21_Witness ==
  /\ query.all /\ keepRunning /\ pc # "idle"
  /\ LinkTarget \in DOMAIN streamPositions
  /\ streamPositions[LinkTarget] = 1
  /\ <<LinkTarget, 1>> \in delivered
  /\ \E k \in DOMAIN streamPositions : k # LinkTarget /\ streamPositions[k] > 0
\* The batch the caller passed to the appendTo call in progress.
InputBatch == [i \in DOMAIN call.chains |-> call.chains[i].input]

\* C22: the batch handed to PersistenceStrategy.appendTo has the length and
\* the order of the batch passed to EventStore.appendTo, position i holding
\* the PRE_APPEND result of input event i, whatever order the chains of the
\* events completed in; the events are stored in that order after the ones
\* the stream holds, and the numbers of a stream are 1..|S|.
C22_BatchOrderKept ==
  /\ [][(\E ok \in BOOLEAN : persistBatch(ok)) =>
          /\ Len(handed') = Len(InputBatch)
          /\ \A i \in DOMAIN InputBatch :
               /\ handed'[i].id = InputBatch[i].id
               /\ handed'[i].name = InputBatch[i].name
               /\ handed'[i].trail = InputBatch[i].trail \o Registered("PRE_APPEND")]_vars
  /\ [][persistBatch(TRUE) =>
          /\ Len(StoredEvents') = Len(StoredEvents) + Len(InputBatch)
          /\ \A i \in DOMAIN InputBatch :
               /\ StoredEvents'[Len(StoredEvents) + i].id = InputBatch[i].id
               /\ StoredEvents'[Len(StoredEvents) + i].name = InputBatch[i].name
          /\ \A k \in DOMAIN StoredEvents : StoredEvents'[k] = StoredEvents[k]]_vars
  /\ [](\A k \in DOMAIN StoredEvents : StoredEvents[k].no = k)

\* A batch of two different events was stored after the chain of its second
\* event completed before the chain of its first.
C22_Witness ==
  /\ call.phase = "observing" /\ appendResult = "ok"
  /\ call.finished = <<2, 1>>
  /\ Len(handed) = 2 /\ handed[1].name # handed[2].name
  /\ Len(handed[1].trail) > 0
  /\ Len(StoredEvents) = 2
====
